---- MODULE Spec2Model ----
(***************************************************************************)
(* A model of nest-firestore-orm: the repository base class               *)
(* (lib/repository-base.ts), the snapshot reshaping (lib/types.ts) and    *)
(* the fluent query builder (lib/firestore.query-builder.ts), over an     *)
(* abstract document store standing for one Firestore collection.         *)
(*                                                                         *)
(* Spec      : the repository's CRUD operations and runTransaction, run   *)
(*             by one caller while other writers of the same collection   *)
(*             interleave their writes.                                    *)
(* QuerySpec : one query builder over a collection of any content.        *)
(***************************************************************************)
EXTENDS Naturals, Sequences, FiniteSets

\* ------------------------------------------------------------------ data

\* Document ids a caller passes explicitly.
Ids == {"d1"}

\* Ids crypto.randomUUID() can produce.
Uuids == {"u1"}

AllIds == Ids \cup Uuids

\* The "no documentId given" argument of create (undefined or "").
NoId == "noid"

\* Field names of a document; "documentId" is a legal field name of T.
Fields == {"a", "documentId"}

\* Field values, ordered "x" < "y" as Firestore orders strings.
Values == {"x", "y"}

\* All document contents: partial maps from Fields to Values.
DocData == UNION {[D -> Values] : D \in SUBSET Fields}

\* The document with no field (also: the spread of an undefined data()).
EmptyDoc == [f \in {} |-> "x"]

\* Contents of a collection: the ids that exist, each with its data.
StoreStates(I) == UNION {[D -> DocData] : D \in SUBSET I}

\* Values a transaction's execute callback can return.
TxValues == {"r1", "r2"}

\* How often the client attempts a transaction before it gives up.
MaxAttempts == 2

VARIABLES
  store,   \* the collection: [ids that exist -> DocData]
  call,    \* the caller's repository operation in progress / last finished
  ret,     \* what the caller's last operation settled with
  txn,     \* the client's transaction driver during runTransaction
  query,   \* FirestoreQueryBuilder.query
  hist,    \* the builder's history: "new", "chained" or "cleared"
  out      \* what the builder's last materialising call returned

vars == <<store, call, ret, txn, query, hist, out>>

\* ------------------------------------------------------------------ client

\* DocumentReference.get(): a snapshot with id, exists and data().
Get(s, id) ==
  [id |-> id,
   exists |-> id \in DOMAIN s,
   data |-> IF id \in DOMAIN s THEN s[id] ELSE EmptyDoc]

\* DocumentReference.set(data): create or overwrite the whole document.
DocSet(s, id, data) ==
  [i \in DOMAIN s \cup {id} |-> IF i = id THEN data ELSE s[i]]

\* Field merge of an update: the named fields replaced, the others kept.
MergeFields(old, data) ==
  [f \in DOMAIN old \cup DOMAIN data |->
     IF f \in DOMAIN data THEN data[f] ELSE old[f]]

\* DocumentReference.update(data) can be applied: the document exists and
\* at least one field is named; otherwise the client rejects.
CanUpdate(s, id, data) == id \in DOMAIN s /\ DOMAIN data # {}

\* DocumentReference.update(data) on a document that exists.
DocUpdate(s, id, data) ==
  [i \in DOMAIN s |-> IF i = id THEN MergeFields(s[i], data) ELSE s[i]]

\* DocumentReference.delete(): succeeds whether or not the document exists.
DocDelete(s, id) == [i \in DOMAIN s \ {id} |-> s[i]]

\* ------------------------------------------------------------------ types.ts

\* { documentId: document.id, ...document.data() }: a later key of the
\* spread replaces documentId.
toDocumentWithId(document) ==
  [f \in {"documentId"} \cup DOMAIN document.data |->
     IF f \in DOMAIN document.data THEN document.data[f] ELSE document.id]

\* ------------------------------------------------------------------ results

NoRet == [outcome |-> "none", kind |-> "none", doc |-> EmptyDoc,
          flag |-> FALSE, val |-> "none"]

RetDoc(d) == [outcome |-> "resolved", kind |-> "doc", doc |-> d,
              flag |-> FALSE, val |-> "none"]

RetUndefined == [outcome |-> "resolved", kind |-> "undefined", doc |-> EmptyDoc,
                 flag |-> FALSE, val |-> "none"]

RetBool(b) == [outcome |-> "resolved", kind |-> "boolean", doc |-> EmptyDoc,
               flag |-> b, val |-> "none"]

RetVoid == [outcome |-> "resolved", kind |-> "void", doc |-> EmptyDoc,
            flag |-> FALSE, val |-> "none"]

RetValue(v) == [outcome |-> "resolved", kind |-> "value", doc |-> EmptyDoc,
                flag |-> FALSE, val |-> v]

Rejected == [outcome |-> "rejected", kind |-> "error", doc |-> EmptyDoc,
             flag |-> FALSE, val |-> "none"]

\* The caller: op is the repository method, phase its position in it.
\* interleaved: another writer touched call.id between this operation's
\* write and its read-back.
Idle == [op |-> "none", phase |-> "idle", id |-> NoId, data |-> EmptyDoc,
         interleaved |-> FALSE]

Started(op, id, data, phase) ==
  [op |-> op, phase |-> phase, id |-> id, data |-> data, interleaved |-> FALSE]

\* The client's transaction driver during runTransaction.
\*   attempts      attempts begun; each attempt has its own transaction object
\*   invocations   invocations of the update function the client was given
\*   executeCalls  calls of the caller's execute callback
\*   arg           the transaction object execute was last called with (0: none)
\*   exec          how execute settled in this attempt: returned or threw
\*   execValue     the value execute returned
\*   retryable     execute threw an error the client retries on
\*   value         the value the update function returned to the client
\*   del           the delete execute buffered in the transaction (NoId: none)
NoTxn == [phase |-> "none", attempts |-> 0, invocations |-> 0,
          executeCalls |-> 0, arg |-> 0, exec |-> "none",
          execValue |-> "none", retryable |-> FALSE,
          value |-> "none", del |-> NoId]

\* The caller awaits each operation: a new one starts when none is pending.
Free == call.phase \in {"idle", "done"}

\* ------------------------------------------------------------------ repository

\* findOneById's value on a collection state.
findOneByIdOf(s, id) ==
  LET document == Get(s, id)
  IN IF document.exists THEN RetDoc(toDocumentWithId(document)) ELSE RetUndefined

\* existsById that takes a document without fields for a missing one.
existsByIdOf_byFields(s, id) == RetBool(Get(s, id).data # EmptyDoc)

\* existsById's value on a collection state.
existsByIdOf(s, id) == RetBool(Get(s, id).exists)

\* create, first half: documentId = documentId || randomUUID(); set(data).
CreateSet(data, documentId) ==
  /\ Free
  /\ \E id \in AllIds :
       /\ IF documentId = NoId THEN id \in Uuids \ DOMAIN store
                               ELSE id = documentId
       /\ store' = DocSet(store, id, data)
       /\ call' = Started("create", id, data, "written")
  /\ ret' = NoRet
  /\ txn' = NoTxn
  /\ UNCHANGED <<query, hist, out>>

\* create, second half: reference.get(); toDocumentWithId(document).
CreateGet ==
  /\ call.op = "create" /\ call.phase = "written"
  /\ ret' = RetDoc(toDocumentWithId(Get(store, call.id)))
  /\ call' = [call EXCEPT !.phase = "done"]
  /\ UNCHANGED <<store, txn, query, hist, out>>

\* update written as set(data, { merge: true }): creates what is missing.
UpdateWrite_setMerge(documentId, data) ==
  /\ Free
  /\ store' = DocSet(store, documentId,
                     MergeFields(Get(store, documentId).data, data))
  /\ call' = Started("update", documentId, data, "written")
  /\ ret' = NoRet
  /\ txn' = NoTxn
  /\ UNCHANGED <<query, hist, out>>

\* update, first half: reference.update(data); a rejection of the client
\* leaves the method through the await, before the read-back.
UpdateWrite(documentId, data) ==
  /\ Free
  /\ IF CanUpdate(store, documentId, data)
       THEN /\ store' = DocUpdate(store, documentId, data)
            /\ call' = Started("update", documentId, data, "written")
            /\ ret' = NoRet
       ELSE /\ store' = store
            /\ call' = Started("update", documentId, data, "done")
            /\ ret' = Rejected
  /\ txn' = NoTxn
  /\ UNCHANGED <<query, hist, out>>

\* update, second half: reference.get(); toDocumentWithId(document).
UpdateGet ==
  /\ call.op = "update" /\ call.phase = "written"
  /\ ret' = RetDoc(toDocumentWithId(Get(store, call.id)))
  /\ call' = [call EXCEPT !.phase = "done"]
  /\ UNCHANGED <<store, txn, query, hist, out>>

findOneById(documentId) ==
  /\ Free
  /\ ret' = findOneByIdOf(store, documentId)
  /\ call' = Started("findOneById", documentId, EmptyDoc, "done")
  /\ txn' = NoTxn
  /\ UNCHANGED <<store, query, hist, out>>

\* deleteById that insists the document exists ({ exists: true }).
deleteById_mustExist(documentId) ==
  /\ Free
  /\ store' = DocDelete(store, documentId)
  /\ ret' = IF documentId \in DOMAIN store THEN RetVoid ELSE Rejected
  /\ call' = Started("deleteById", documentId, EmptyDoc, "done")
  /\ txn' = NoTxn
  /\ UNCHANGED <<query, hist, out>>

deleteById(documentId) ==
  /\ Free
  /\ store' = DocDelete(store, documentId)
  /\ ret' = RetVoid
  /\ call' = Started("deleteById", documentId, EmptyDoc, "done")
  /\ txn' = NoTxn
  /\ UNCHANGED <<query, hist, out>>

existsById(documentId) ==
  /\ Free
  /\ ret' = existsByIdOf(store, documentId)
  /\ call' = Started("existsById", documentId, EmptyDoc, "done")
  /\ txn' = NoTxn
  /\ UNCHANGED <<store, query, hist, out>>

\* ------------------------------------------------------------------ other writers

\* The caller's pending operation sees a write of another writer on its id.
Touched(id) ==
  IF call.phase = "written" /\ call.id = id
    THEN [call EXCEPT !.interleaved = TRUE]
    ELSE call

\* Another repository instance's create reaches the collection.
OtherCreate(id, data) ==
  /\ store' = DocSet(store, id, data)
  /\ call' = Touched(id)
  /\ UNCHANGED <<ret, txn, query, hist, out>>

\* Another repository instance's update reaches the collection.
OtherUpdate(id, data) ==
  /\ CanUpdate(store, id, data)
  /\ store' = DocUpdate(store, id, data)
  /\ call' = Touched(id)
  /\ UNCHANGED <<ret, txn, query, hist, out>>

\* Another repository instance's deleteById reaches the collection.
OtherDelete(id) ==
  /\ store' = DocDelete(store, id)
  /\ call' = Touched(id)
  /\ UNCHANGED <<ret, txn, query, hist, out>>

\* ------------------------------------------------------------------ runTransaction

\* runTransaction(execute): hands the client an update function; the
\* client begins its first attempt.
runTransaction ==
  /\ Free
  /\ call' = Started("runTransaction", NoId, EmptyDoc, "pending")
  /\ txn' = [NoTxn EXCEPT !.phase = "begun", !.attempts = 1]
  /\ ret' = NoRet
  /\ UNCHANGED <<store, query, hist, out>>

\* The transaction object the client made for the attempt in progress.
Transaction(t) == t.attempts

\* An update function that calls execute again after the first call.
UpdateFunction_twice(t, transaction) ==
  [t EXCEPT !.invocations = @ + 1,
            !.executeCalls = @ + 2,
            !.arg = transaction,
            !.phase = "executing"]

\* What the invocation of the update function
\*   async (transaction: Transaction) => { return await execute(transaction); }
\* does to the driver: execute is called once, with the transaction the
\* function was given, and the function waits for it at the await.
UpdateFunction(t, transaction) ==
  [t EXCEPT !.invocations = @ + 1,
            !.executeCalls = @ + 1,
            !.arg = transaction,
            !.phase = "executing"]

\* The client invokes the update function with the attempt's transaction.
TxnInvoke ==
  /\ txn.phase = "begun"
  /\ txn' = UpdateFunction(txn, Transaction(txn))
  /\ UNCHANGED <<store, call, ret, query, hist, out>>

\* The caller's execute settles: it returned value v after buffering the
\* delete of del (NoId: nothing buffered), or it threw an error, one the
\* client retries on or not.
Executed(t, returns, v, del, retryable) ==
  [t EXCEPT !.exec = IF returns THEN "returned" ELSE "threw",
            !.execValue = IF returns THEN v ELSE "none",
            !.del = IF returns THEN del ELSE NoId,
            !.retryable = ~returns /\ retryable]

\* return await execute(transaction): the update function returns what
\* execute returned and throws what execute threw; nothing is caught.
Settled(t) == [t EXCEPT !.phase = t.exec, !.value = t.execValue]

\* execute, pending since the invocation, settles, and with it the update
\* function; other writers' writes may have reached the collection since.
TxnSettle(returns, v, del, retryable) ==
  /\ txn.phase = "executing"
  /\ txn' = Settled(Executed(txn, returns, v, del, retryable))
  /\ UNCHANGED <<store, call, ret, query, hist, out>>

\* return this.firestore.runTransaction(...): the promise of runTransaction
\* settles as the client's does, with the value the client resolves with.
Resolution(t) == IF t.phase = "committed" THEN RetValue(t.value) ELSE Rejected

\* The driver begins another attempt, with a new transaction.
Retried(t) ==
  [t EXCEPT !.phase = "begun", !.attempts = @ + 1, !.arg = 0,
            !.exec = "none", !.execValue = "none", !.retryable = FALSE,
            !.value = "none", !.del = NoId]

\* The client commits: the buffered writes reach the collection, the
\* client's promise resolves with what the update function returned.
TxnCommit ==
  /\ txn.phase = "returned"
  /\ store' = IF txn.del = NoId THEN store ELSE DocDelete(store, txn.del)
  /\ txn' = [txn EXCEPT !.phase = "committed"]
  /\ ret' = Resolution(txn')
  /\ call' = [call EXCEPT !.phase = "done"]
  /\ UNCHANGED <<query, hist, out>>

\* The commit fails. On contention (a retryable error) the client begins
\* another attempt while it has attempts left; else its promise rejects.
TxnAbort(retryable) ==
  /\ txn.phase = "returned"
  /\ IF retryable /\ txn.attempts < MaxAttempts
       THEN /\ txn' = Retried(txn)
            /\ UNCHANGED <<call, ret>>
       ELSE /\ txn' = [txn EXCEPT !.phase = "failed"]
            /\ ret' = Resolution(txn')
            /\ call' = [call EXCEPT !.phase = "done"]
  /\ UNCHANGED <<store, query, hist, out>>

\* The update function threw: the client rolls back; on a retryable error
\* it begins another attempt while it has attempts left, else its promise
\* rejects.
TxnThrow ==
  /\ txn.phase = "threw"
  /\ IF txn.retryable /\ txn.attempts < MaxAttempts
       THEN /\ txn' = Retried(txn)
            /\ UNCHANGED <<call, ret>>
       ELSE /\ txn' = [txn EXCEPT !.phase = "failed"]
            /\ ret' = Resolution(txn')
            /\ call' = [call EXCEPT !.phase = "done"]
  /\ UNCHANGED <<store, query, hist, out>>

\* ------------------------------------------------------------------ client queries

\* Bounds of the query builder's inputs.
MaxConstraints == 2
MaxOffset == 1
MaxLimit == 2

\* Firestore's order of the strings used as ids and field values.
StringOrder == <<"d1", "u1", "x", "y">>

Pos(v) == CHOOSE i \in 1..Len(StringOrder) : StringOrder[i] = v

Operators == {"==", ">"}

Directions == {"asc", "desc"}

NoCursor == [set |-> FALSE, before |-> FALSE, id |-> NoId, data |-> EmptyDoc]

\* A cursor made from a document snapshot: its id and field values, and
\* whether the position is just before (TRUE) or just after them.
Cursor(snapshot, before) ==
  [set |-> TRUE, before |-> before, id |-> snapshot.id, data |-> snapshot.data]

\* A CollectionReference as a Query: no filter, order, offset, limit, cursor.
Reference ==
  [filters |-> {}, orders |-> <<>>, offset |-> 0, limit |-> 0,
   startAt |-> NoCursor, endAt |-> NoCursor]

\* Query.where / orderBy / offset / limit: a new query, the old one kept.
Where(q, field, operator, value) ==
  [q EXCEPT !.filters = @ \cup {[field |-> field, op |-> operator, value |-> value]}]

OrderBy(q, field, direction) ==
  [q EXCEPT !.orders = Append(@, [field |-> field, dir |-> direction])]

Offset(q, n) == [q EXCEPT !.offset = n]

Limit(q, n) == [q EXCEPT !.limit = n]

\* Query.startAt / startAfter / endAt / endBefore with a snapshot.
StartAt(q, snapshot) == [q EXCEPT !.startAt = Cursor(snapshot, TRUE)]

StartAfter(q, snapshot) == [q EXCEPT !.startAt = Cursor(snapshot, FALSE)]

EndAt(q, snapshot) == [q EXCEPT !.endAt = Cursor(snapshot, FALSE)]

EndBefore(q, snapshot) == [q EXCEPT !.endAt = Cursor(snapshot, TRUE)]

HasCursor(q) == q.startAt.set \/ q.endAt.set

OrderFields(q) == {q.orders[i].field : i \in 1..Len(q.orders)}

\* The order the query is evaluated in: the explicit orders, then the
\* fields of inequality filters not ordered yet, then the document name,
\* the implicit ones in the direction of the last explicit order.
NormalOrders(q) ==
  LET dir == IF q.orders = <<>> THEN "asc" ELSE q.orders[Len(q.orders)].dir
      ineq == {f.field : f \in {g \in q.filters : g.op = ">"}} \ OrderFields(q)
      implicit(S) ==
        IF S = {} THEN <<>>
        ELSE IF "a" \in S
          THEN <<[field |-> "a", dir |-> dir]>> \o
               (IF "documentId" \in S THEN <<[field |-> "documentId", dir |-> dir]>>
                                    ELSE <<>>)
          ELSE <<[field |-> "documentId", dir |-> dir]>>
  IN q.orders \o implicit(ineq) \o <<[field |-> "__name__", dir |-> dir]>>

\* The number of constraints a query carries.
Constraints(q) ==
  Cardinality(q.filters) + Len(q.orders)
    + (IF q.offset > 0 THEN 1 ELSE 0) + (IF q.limit > 0 THEN 1 ELSE 0)
    + (IF q.startAt.set THEN 1 ELSE 0) + (IF q.endAt.set THEN 1 ELSE 0)

\* A snapshot can serve as a cursor of q: it has every field the query
\* is ordered by. The document name is always there, also for the
\* snapshot of a missing document.
CursorFits(q, snapshot) ==
  \A i \in 1..Len(NormalOrders(q)) :
    NormalOrders(q)[i].field \in DOMAIN snapshot.data \cup {"__name__"}

\* The value a document is ordered by under one order.
KeyOf(d, field) == IF field = "__name__" THEN d.id ELSE d.data[field]

\* d1 comes strictly before d2 in the order ords.
Precedes(d1, d2, ords) ==
  \E k \in 1..Len(ords) :
    /\ \A j \in 1..(k - 1) : KeyOf(d1, ords[j].field) = KeyOf(d2, ords[j].field)
    /\ IF ords[k].dir = "asc"
         THEN Pos(KeyOf(d1, ords[k].field)) < Pos(KeyOf(d2, ords[k].field))
         ELSE Pos(KeyOf(d1, ords[k].field)) > Pos(KeyOf(d2, ords[k].field))

\* A document satisfies one filter: the field is present and compares.
Satisfies(data, f) ==
  /\ f.field \in DOMAIN data
  /\ IF f.op = "==" THEN data[f.field] = f.value
                    ELSE Pos(data[f.field]) > Pos(f.value)

\* The ids the filters, the orders' fields and the cursors let through.
Matching(q, s) ==
  LET ords == NormalOrders(q)
  IN {id \in DOMAIN s :
        /\ \A f \in q.filters : Satisfies(s[id], f)
        /\ \A i \in 1..Len(ords) : ords[i].field \in DOMAIN s[id] \cup {"__name__"}
        /\ q.startAt.set =>
             IF q.startAt.before THEN ~Precedes(Get(s, id), q.startAt, ords)
                                 ELSE Precedes(q.startAt, Get(s, id), ords)
        /\ q.endAt.set =>
             IF q.endAt.before THEN Precedes(Get(s, id), q.endAt, ords)
                               ELSE ~Precedes(q.endAt, Get(s, id), ords)}

RECURSIVE Sorted(_, _, _)
\* The snapshots of the ids in S, in the order ords.
Sorted(S, s, ords) ==
  IF S = {} THEN <<>>
  ELSE LET first == CHOOSE i \in S :
                      \A j \in S \ {i} : Precedes(Get(s, i), Get(s, j), ords)
       IN <<Get(s, first)>> \o Sorted(S \ {first}, s, ords)

\* Skip the first n, then keep at most limit (limit 0: no limit).
Window(docs, n, limit) ==
  LET rest == IF n >= Len(docs) THEN <<>> ELSE SubSeq(docs, n + 1, Len(docs))
  IN IF limit > 0 /\ limit < Len(rest) THEN SubSeq(rest, 1, limit) ELSE rest

\* A QuerySnapshot: docs, size and empty.
QuerySnapshot(docs) == [docs |-> docs, size |-> Len(docs), empty |-> docs = <<>>]

\* Query.get() on a collection state.
QueryGet(q, s) ==
  QuerySnapshot(Window(Sorted(Matching(q, s), s, NormalOrders(q)), q.offset, q.limit))

\* docs.map(toDocumentWithId)
RECURSIVE MapToDocumentWithId(_)
MapToDocumentWithId(docs) ==
  IF docs = <<>> THEN <<>>
  ELSE <<toDocumentWithId(Head(docs))>> \o MapToDocumentWithId(Tail(docs))

\* ------------------------------------------------------------------ query builder

NoOut == [kind |-> "none", defined |-> FALSE, doc |-> EmptyDoc,
          data |-> <<>>, count |-> 0]

\* A chained call may be added while the query is below the bound.
Room == Constraints(query) < MaxConstraints

\* A chained call stored newQuery in this.query and returned this.
Chained(newQuery) ==
  /\ query' = newQuery
  /\ hist' = "chained"
  /\ out' = NoOut
  /\ UNCHANGED <<store, call, ret, txn>>

\* The client refuses where() and orderBy() once a cursor is set.
where(field, operator, value) ==
  /\ Room /\ ~HasCursor(query)
  /\ Chained(Where(query, field, operator, value))

orderBy(field, direction) ==
  /\ Room /\ ~HasCursor(query)
  /\ Chained(OrderBy(query, field, direction))

offset(n) ==
  /\ Room
  /\ Chained(Offset(query, n))

limit(n) ==
  /\ Room
  /\ Chained(Limit(query, n))

startAt(id) ==
  /\ Room /\ CursorFits(query, Get(store, id))
  /\ Chained(StartAt(query, Get(store, id)))

startAfter(id) ==
  /\ Room /\ CursorFits(query, Get(store, id))
  /\ Chained(StartAfter(query, Get(store, id)))

endAt(id) ==
  /\ Room /\ CursorFits(query, Get(store, id))
  /\ Chained(EndAt(query, Get(store, id)))

endBefore(id) ==
  /\ Room /\ CursorFits(query, Get(store, id))
  /\ Chained(EndBefore(query, Get(store, id)))

\* clear that keeps the limit of the query it drops.
Cleared_keepsLimit(q) == Limit(Reference, q.limit)

\* this.query = this.reference
Cleared(q) == Reference

clear ==
  /\ query' = Cleared(query)
  /\ hist' = IF hist = "chained" THEN "cleared" ELSE hist
  /\ out' = NoOut
  /\ UNCHANGED <<store, call, ret, txn>>

\* getOne: this.query.limit(1).get(); the first document or undefined.
getOneOf(q, s) ==
  LET documents == QueryGet(Limit(q, 1), s)
  IN IF ~documents.empty
       THEN [NoOut EXCEPT !.kind = "getOne", !.defined = TRUE,
                          !.doc = toDocumentWithId(documents.docs[1])]
       ELSE [NoOut EXCEPT !.kind = "getOne"]

\* getOne written as the chained calls are: this.query = this.query.limit(1).
AfterGetOne_stored(q) == Limit(q, 1)

\* The query getOne leaves in this.query.
AfterGetOne(q) == q

getOne ==
  /\ out' = getOneOf(query, store)
  /\ query' = AfterGetOne(query)
  /\ UNCHANGED <<store, call, ret, txn, hist>>

getManyOf(q, s) ==
  LET documents == QueryGet(q, s)
  IN [NoOut EXCEPT !.kind = "getMany", !.defined = TRUE,
                   !.data = MapToDocumentWithId(documents.docs)]

getMany ==
  /\ out' = getManyOf(query, store)
  /\ UNCHANGED <<store, call, ret, txn, query, hist>>

\* getManyAndCount that counts the matching documents before the window.
getManyAndCountOf_matching(q, s) ==
  LET documents == QueryGet(q, s)
  IN [NoOut EXCEPT !.kind = "getManyAndCount", !.defined = TRUE,
                   !.count = Cardinality(Matching(q, s)),
                   !.data = MapToDocumentWithId(documents.docs)]

getManyAndCountOf(q, s) ==
  LET documents == QueryGet(q, s)
  IN [NoOut EXCEPT !.kind = "getManyAndCount", !.defined = TRUE,
                   !.count = documents.size,
                   !.data = MapToDocumentWithId(documents.docs)]

getManyAndCount ==
  /\ out' = getManyAndCountOf(query, store)
  /\ UNCHANGED <<store, call, ret, txn, query, hist>>

countOf(q, s) ==
  LET documents == QueryGet(q, s)
  IN [NoOut EXCEPT !.kind = "count", !.defined = TRUE, !.count = documents.size]

count ==
  /\ out' = countOf(query, store)
  /\ UNCHANGED <<store, call, ret, txn, query, hist>>

\* ------------------------------------------------------------------ specifications

\* After construction: an empty collection, no call made, a new builder.
Init ==
  /\ store = EmptyDoc
  /\ call = Idle
  /\ ret = NoRet
  /\ txn = NoTxn
  /\ query = Reference
  /\ hist = "new"
  /\ out = NoOut

Next ==
  \/ \E data \in DocData, id \in Ids \cup {NoId} : CreateSet(data, id)
  \/ CreateGet
  \/ \E id \in AllIds, data \in DocData : UpdateWrite(id, data)
  \/ UpdateGet
  \/ \E id \in AllIds : findOneById(id)
  \/ \E id \in AllIds : deleteById(id)
  \/ \E id \in AllIds : existsById(id)
  \/ runTransaction
  \/ TxnInvoke
  \/ \E returns \in BOOLEAN, v \in TxValues, del \in AllIds \cup {NoId},
        retryable \in BOOLEAN :
       TxnSettle(returns, v, del, retryable)
  \/ TxnCommit
  \/ \E retryable \in BOOLEAN : TxnAbort(retryable)
  \/ TxnThrow
  \/ \E id \in AllIds, data \in DocData : OtherCreate(id, data)
  \/ \E id \in AllIds, data \in DocData : OtherUpdate(id, data)
  \/ \E id \in AllIds : OtherDelete(id)

Spec == Init /\ [][Next]_vars

\* A new builder over a collection of any content.
QueryInit ==
  /\ store \in StoreStates(AllIds)
  /\ call = Idle
  /\ ret = NoRet
  /\ txn = NoTxn
  /\ query = Reference
  /\ hist = "new"
  /\ out = NoOut

QueryNext ==
  \/ \E field \in Fields, operator \in Operators, value \in Values :
       where(field, operator, value)
  \/ \E field \in Fields, direction \in Directions : orderBy(field, direction)
  \/ \E n \in 0..MaxOffset : offset(n)
  \/ \E n \in 1..MaxLimit : limit(n)
  \/ \E id \in AllIds : startAt(id)
  \/ \E id \in AllIds : startAfter(id)
  \/ \E id \in AllIds : endAt(id)
  \/ \E id \in AllIds : endBefore(id)
  \/ clear
  \/ getOne
  \/ getMany
  \/ getManyAndCount
  \/ count

QuerySpec == QueryInit /\ [][QueryNext]_vars

\* ------------------------------------------------------------------ claims

\* data with documentId = id added (a documentId of data gives way to id).
WithId(data, id) ==
  [f \in DOMAIN data \cup {"documentId"} |->
     IF f = "documentId" THEN id ELSE data[f]]

\* The step is the write of update(id, data) by the caller.
UpdateWriteStep ==
  call.phase \in {"idle", "done"} /\ call'.op = "update" /\ call'.phase = "written"

\* The step is the read-back of update by the caller.
UpdateGetStep ==
  call.op = "update" /\ call.phase = "written" /\ call'.phase = "done"

\* C1: create(data, id) resolves with documentId = id and exactly the
\* fields and values of data in every execution, interleaved writes on
\* the same id included. Stated for data without a field documentId,
\* which keeps the case of C4 apart.
C1_CreateReturnsData ==
  (call.op = "create" /\ call.phase = "done" /\ "documentId" \notin DOMAIN call.data)
    => (ret.outcome = "resolved" /\ ret.doc = WithId(call.data, call.id))

\* C2: update(id, data) on a document that exists, nothing interleaved:
\* the fields of data are set, the other fields and the other documents
\* are kept, and it resolves with the stored document plus documentId = id.
C2_UpdateExisting ==
  [][/\ UpdateWriteStep =>
          /\ DOMAIN store' = DOMAIN store
          /\ store'[call'.id] = MergeFields(store[call'.id], call'.data)
          /\ \A o \in DOMAIN store \ {call'.id} : store'[o] = store[o]
     /\ (UpdateGetStep /\ ~call.interleaved) =>
          /\ ret'.outcome = "resolved"
          /\ ret'.doc = WithId(store[call.id], call.id)]_vars

\* C3: existsById(id) is true exactly when a document with that id exists,
\* and exactly when findOneById(id) is not undefined, on every collection
\* state create, update and deleteById lead to.
C3_ExistsIffFound ==
  \A id \in AllIds :
    /\ existsByIdOf(store, id).flag = (id \in DOMAIN store)
    /\ existsByIdOf(store, id).flag = (findOneByIdOf(store, id).kind # "undefined")

C3_Witness ==
  /\ call.op = "existsById" /\ call.phase = "done"
  /\ ret.flag /\ call.id \in DOMAIN store /\ store[call.id] = EmptyDoc
  /\ \E o \in AllIds : o \notin DOMAIN store

\* C4: the object toDocumentWithId produces has documentId equal to the id
\* of the snapshot it was built from, whatever the document's data, a field
\* named documentId included.
C4_DocumentIdIsSnapshotId ==
  \A id \in DOMAIN store : toDocumentWithId(Get(store, id)).documentId = id

\* C5: after any chained calls, clear() makes the query the bare collection
\* reference again, and a following getMany or count returns what a new
\* builder returns on the same collection.
C5_ClearResets ==
  hist = "cleared" =>
    /\ query = Reference
    /\ out.kind = "getMany" => out = getManyOf(Reference, store)
    /\ out.kind = "count" => out.count = Cardinality(DOMAIN store)

C5_Witness ==
  hist = "cleared" /\ out.kind = "getMany" /\ Len(out.data) = 2

\* C6: runTransaction resolves with the value execute returned in the
\* attempt the client committed and rejects when the transaction fails;
\* execute is called exactly once per invocation the client makes, with
\* the transaction object of that invocation, and the wrapper retries
\* nothing, catches nothing and writes nothing itself.
C6_TransactionPassThrough ==
  [][/\ txn'.executeCalls = txn'.invocations
     /\ txn'.invocations <= txn'.attempts
     /\ (txn.phase = "begun" /\ txn'.phase = "executing") =>
          /\ txn'.executeCalls = txn.executeCalls + 1
          /\ txn'.invocations = txn.invocations + 1
          /\ txn'.arg = Transaction(txn)
          /\ store' = store
     /\ (txn.phase = "executing" /\ txn'.phase # "executing") =>
          /\ txn'.phase = txn'.exec
          /\ txn'.value = txn'.execValue
          /\ txn'.executeCalls = txn.executeCalls
          /\ txn'.invocations = txn.invocations
          /\ store' = store
     /\ (call.op = "runTransaction" /\ call.phase = "pending") =>
          /\ (call'.phase = "done") = (txn'.phase \in {"committed", "failed"})
          /\ (call'.phase = "pending") => (ret' = NoRet)
     /\ (txn.phase # "committed" /\ txn'.phase = "committed") =>
          /\ txn.exec = "returned"
          /\ txn.arg = Transaction(txn)
          /\ ret' = RetValue(txn.execValue)
          /\ \A id \in AllIds \ {txn.del} : Get(store', id) = Get(store, id)
          /\ txn.del \notin DOMAIN store'
     /\ (txn.phase # "failed" /\ txn'.phase = "failed") =>
          /\ ret' = Rejected
          /\ store' = store]_vars

C6_Witness ==
  /\ txn.phase = "committed" /\ txn.attempts = 2 /\ txn.executeCalls = 2
  /\ txn.arg = 2 /\ txn.del = "d1" /\ ret = RetValue("r2")

\* C7: update(id, data) on an id without a document rejects, creates no
\* document, leaves the collection as it was and does no read-back.
C7_UpdateMissingRejects ==
  [][(/\ call'.op = "update"
      /\ call'.id \notin DOMAIN store
      /\ UpdateWrite(call'.id, call'.data)) =>
        /\ ret' = Rejected
        /\ store' = store
        /\ call'.phase = "done"]_vars

C7_Witness ==
  /\ call.op = "update" /\ call.phase = "done" /\ ret = Rejected
  /\ call.id \notin DOMAIN store /\ DOMAIN call.data # {}
  /\ DOMAIN store # {}

\* C8: getManyAndCount() returns count equal to the length of its data, and
\* on the same collection that count equals count() and the length of
\* getMany().
C8_CountIsLength ==
  out.kind = "getManyAndCount" =>
    /\ out.count = Len(out.data)
    /\ out.count = countOf(query, store).count
    /\ out.count = Len(getManyOf(query, store).data)

C8_Witness ==
  /\ out.kind = "getManyAndCount" /\ out.count = 1 /\ Len(out.data) = 1
  /\ query.limit = 1 /\ Cardinality(Matching(query, store)) = 2

\* C9: getOne() returns undefined exactly when the query matches no
\* document and the first document of the query's result otherwise, and it
\* leaves the builder's query as it was, so that a getMany() after it
\* returns every document of the result.
C9_GetOneFirstAndFrame ==
  [][/\ out'.kind = "getOne" =>
          /\ query' = query
          /\ out'.defined = ~QueryGet(query, store).empty
          /\ out'.defined =>
               out'.doc = toDocumentWithId(QueryGet(query, store).docs[1])
     /\ (out.kind = "getOne" /\ out'.kind = "getMany") =>
          Len(out'.data) = QueryGet(query, store).size]_vars

C9_Witness ==
  out.kind = "getOne" /\ out.defined /\ QueryGet(query, store).size = 2

\* C10: after deleteById(id) the document is gone, existsById(id) is false
\* and findOneById(id) undefined until a create on that id; no other
\* document changes, and on a missing id it succeeds and changes nothing.
C10_DeleteById ==
  [][/\ \A id \in AllIds :
          deleteById(id) =>
            /\ ret' = RetVoid
            /\ id \notin DOMAIN store'
            /\ \A o \in AllIds \ {id} : Get(store', o) = Get(store, o)
            /\ id \notin DOMAIN store => store' = store
     /\ \A id \in AllIds :
          (id \notin DOMAIN store /\ id \in DOMAIN store') =>
            \/ call'.op = "create" /\ call'.phase = "written" /\ call'.id = id
            \/ \E data \in DocData : OtherCreate(id, data)
     /\ \A id \in AllIds :
          id \notin DOMAIN store' =>
            /\ ~existsByIdOf(store', id).flag
            /\ findOneByIdOf(store', id) = RetUndefined]_vars

C10_Witness ==
  /\ call.op = "deleteById" /\ call.phase = "done" /\ ret = RetVoid
  /\ call.id \notin DOMAIN store /\ DOMAIN store # {}

====
